---- MODULE Spec2Model ----
(***************************************************************************)
(* Audio_to_Text-and-Text_to_Audio: the FastAPI service (main.py) with its *)
(* two handlers, text_to_speech and transcribe_audio, and the Streamlit    *)
(* client script (app.py).                                                 *)
(*                                                                         *)
(* Python strings are sequences of one-character strings, so that          *)
(* str.startswith, str.strip and f-string concatenation are computed and   *)
(* not assumed.  The two pre-trained models (Kokoro KPipeline, Whisper)    *)
(* are the environment: what they yield or raise is chosen freely.         *)
(***************************************************************************)
EXTENDS Integers, Sequences, FiniteSets, TLC

VARIABLES
    \* ---- main.py, text_to_speech ----
    tts_pipeline,      \* module global (main.py 24-28): "None" or "KPipeline"
    tts_pc,            \* position of the handler call
    request,           \* TextRequest of the call in progress
    generator,         \* what the pipeline's generator still has to give
    produced,          \* the whole chunk sequence this generator is going to yield
    all_audio_chunks,  \* the list the comprehension builds (line 50)
    audio_data,        \* np.concatenate result (line 55), None before
    tts_failure,       \* the exception raised inside the try block, None if none
    tts_response,      \* the Response returned, None before
    tts_responses,     \* number of responses this call has returned
    tts_model_calls,   \* number of times this call invoked tts_pipeline
    \* ---- main.py, transcribe_audio ----
    stt_pc,            \* per call (one call serves one request): position
    upload,            \* per call: the UploadFile
    tmp_file,          \* per call: name of the NamedTemporaryFile it opened, None
    tmp_file_path,     \* per call: the local variable of line 75/80
    asr_text,          \* per call: result["text"] the model returned, None
    stt_failure,       \* per call: message of the exception raised in the try
    stt_response,      \* per call: the response, None before
    asr_calls,         \* per call: number of asr_model.transcribe invocations
    asr_read,          \* per call: creator of the file the model was run on, 0 before
    fs,                \* the temp directory: the names that exist -> their files
    \* ---- app.py ----
    input_text,        \* value of the text area
    st_audio_bytes,    \* value the audio_recorder component holds (clip id or None)
    presses,           \* number of presses of "Generate Audio" so far
    clips,             \* number of clips recorded so far
    tts_sent,          \* requests sent to /tts, per press
    stt_sent,          \* requests sent to /transcribe/, per clip
    tts_outcome,       \* what the last TTS request came to, None if none was sent
    stt_outcome,       \* what the last STT request came to
    tts_shown,         \* what the TTS tab rendered in the last run
    stt_shown,         \* what the STT tab rendered in the last run
    runs               \* number of script runs so far

ttsVars == <<tts_pipeline, tts_pc, request, generator, produced, all_audio_chunks,
             audio_data, tts_failure, tts_response, tts_responses, tts_model_calls>>
sttVars == <<stt_pc, upload, tmp_file, tmp_file_path, asr_text, stt_failure,
             stt_response, asr_calls, asr_read, fs>>
uiVars  == <<input_text, st_audio_bytes, presses, clips, tts_sent, stt_sent,
             tts_outcome, stt_outcome, tts_shown, stt_shown, runs>>
vars    == <<ttsVars, sttVars, uiVars>>

None == "None"

\* None where a str is expected: no str, since every str is made of single characters
NoneStr == <<"None">>

(***************************************************************************)
(* Bounds of the model.                                                    *)
(***************************************************************************)
MaxTextLen  == 2    \* longest request text / transcription text
MaxChunks   == 3    \* most chunks one generator yields
MaxCalls    == 2    \* transcribe_audio calls, any number of them in flight at once
MaxPaths    == 3    \* names the temp directory can hold
MaxPresses  == 2    \* presses of "Generate Audio"
MaxClips    == 2    \* clips recorded
MaxRuns     == 4    \* runs of the Streamlit script

SampleRate == 24000

(***************************************************************************)
(* Strings.                                                                *)
(***************************************************************************)
Whitespace == {" ", "\t", "\n"}
TextChars  == {"h", " ", "\t"}

RECURSIVE SeqsUpTo(_, _)
SeqsUpTo(S, n) ==
    IF n = 0 THEN {<<>>}
    ELSE LET shorter == SeqsUpTo(S, n - 1)
         IN  shorter \cup {Append(s, x) : s \in shorter, x \in S}

Texts == SeqsUpTo(TextChars, MaxTextLen)

\* str.startswith
StartsWith(s, prefix) ==
    /\ Len(s) >= Len(prefix)
    /\ SubSeq(s, 1, Len(prefix)) = prefix

\* Python's "x in s" for strings
Contains(s, x) ==
    \E i \in 0..(Len(s) - Len(x)) : SubSeq(s, i + 1, i + Len(x)) = x

RECURSIVE LStrip(_)
LStrip(s) ==
    IF s # <<>> /\ Head(s) \in Whitespace THEN LStrip(Tail(s)) ELSE s

RECURSIVE RStrip(_)
RStrip(s) ==
    IF s # <<>> /\ s[Len(s)] \in Whitespace THEN RStrip(SubSeq(s, 1, Len(s) - 1)) ELSE s

\* str.strip()
Strip(s) == RStrip(LStrip(s))

\* messages of the exceptions the environment raises
ExcMsgs == {<<"E", "1">>, <<"o", "o", "m">>}

ModelNotAvailable == <<"M","o","d","e","l"," ","n","o","t"," ","a","v","a","i","l","a","b","l","e","."," ","C","h","e","c","k"," ","s","e","r","v","e","r"," ","l","o","g","s",".">>
NoAudioGenerated == <<"N","o"," ","a","u","d","i","o"," ","g","e","n","e","r","a","t","e","d"," ","f","o","r"," ","t","h","e"," ","p","r","o","v","i","d","e","d"," ","t","e","x","t",".">>
InternalServerErrorPrefix == <<"I","n","t","e","r","n","a","l"," ","S","e","r","v","e","r"," ","E","r","r","o","r",":"," ">>
AnErrorOccurredPrefix == <<"A","n"," ","e","r","r","o","r"," ","o","c","c","u","r","r","e","d",":"," ">>
InvalidFileType == <<"I","n","v","a","l","i","d"," ","f","i","l","e"," ","t","y","p","e","."," ","P","l","e","a","s","e"," ","u","p","l","o","a","d"," ","a","n"," ","a","u","d","i","o"," ","f","i","l","e",".">>
AudioPrefix == <<"a","u","d","i","o","/">>

(***************************************************************************)
(* text_to_speech (main.py 34-65).                                         *)
(***************************************************************************)
Voices == {"af_heart", "am_adam"}

\* TextRequest (main.py 16-21): text is any str, voice defaults to af_heart
TextRequest == [text : Texts, voice : Voices]

\* the audio chunks a generator may yield: arrays of samples
Chunks == {<<0>>, <<1>>, <<0, 1>>}
ChunkSeqs == SeqsUpTo(Chunks, MaxChunks)

\* a generator: the chunks it still yields, and how it ends
Generators == [chunks : ChunkSeqs, raises : {NoneStr} \cup ExcMsgs]

NoGenerator == [chunks |-> <<>>, raises |-> NoneStr]

NoResponse == [status |-> 0, content |-> <<>>, media_type |-> None]

NoTextRequest == [text |-> NoneStr, voice |-> None]

ConcatenateReversed(chunks) ==
    LET RECURSIVE rev(_)
        rev(cs) == IF cs = <<>> THEN <<>> ELSE rev(Tail(cs)) \o Head(cs)
    IN  rev(chunks)

\* np.concatenate over a list of one-dimensional arrays (line 55)
Concatenate(chunks) ==
    LET RECURSIVE cat(_)
        cat(cs) == IF cs = <<>> THEN <<>> ELSE Head(cs) \o cat(Tail(cs))
    IN  cat(chunks)

\* sf.write(buffer, audio_data, 24000, format='WAV') then buffer.getvalue()
WavBytes(data) ==
    [format |-> "WAV", samplerate |-> SampleRate, frames |-> data]

NeverUnavailable(pipeline) == FALSE

\* line 45
ModelUnavailable(pipeline) == pipeline = None

\* line 46
ModelUnavailableResponse ==
    [status |-> 500, content |-> ModelNotAvailable, media_type |-> None]

NoAudioAsServerError ==
    [status |-> 500, content |-> NoAudioGenerated, media_type |-> None]

\* line 53
NoAudioResponse ==
    [status |-> 400, content |-> NoAudioGenerated, media_type |-> None]

\* line 61 (status_code defaults to 200)
AudioResponse(data) ==
    [status |-> 200, content |-> WavBytes(data), media_type |-> "audio/wav"]

ErrorResponseWithoutDetail(e) ==
    [status |-> 500, content |-> InternalServerErrorPrefix, media_type |-> None]

\* lines 63-65
InternalErrorResponse(e) ==
    [status |-> 500, content |-> InternalServerErrorPrefix \o e, media_type |-> None]

InitTts ==
    /\ tts_pipeline \in {None, "KPipeline"}
    /\ tts_pc = "idle"
    /\ request = NoTextRequest
    /\ generator = NoGenerator
    /\ produced = <<>>
    /\ all_audio_chunks = <<>>
    /\ audio_data = <<>>
    /\ tts_failure = NoneStr
    /\ tts_response = NoResponse
    /\ tts_responses = 0
    /\ tts_model_calls = 0

TtsRespond(resp) ==
    /\ tts_response' = resp
    /\ tts_responses' = tts_responses + 1
    /\ tts_pc' = "responded"

\* a request arrives; lines 45-46
TtsReceive ==
    /\ tts_pc = "idle"
    /\ \E r \in TextRequest : request' = r
    /\ IF ModelUnavailable(tts_pipeline)
       THEN TtsRespond(ModelUnavailableResponse)
       ELSE /\ tts_pc' = "try"
            /\ UNCHANGED <<tts_response, tts_responses>>
    /\ UNCHANGED <<tts_pipeline, generator, produced, all_audio_chunks, audio_data,
                   tts_failure, tts_model_calls>>
    /\ UNCHANGED <<sttVars, uiVars>>

\* line 49: the pipeline is called once and hands back a generator
TtsInvoke ==
    /\ tts_pc = "try"
    /\ tts_model_calls' = tts_model_calls + 1
    /\ \E g \in Generators :
         /\ generator' = g
         /\ produced' = g.chunks
    /\ tts_pc' = "drain"
    /\ UNCHANGED <<tts_pipeline, request, all_audio_chunks, audio_data, tts_failure,
                   tts_response, tts_responses>>
    /\ UNCHANGED <<sttVars, uiVars>>

\* line 50: one step of the list comprehension
TtsNextChunk ==
    /\ tts_pc = "drain"
    /\ generator.chunks # <<>>
    /\ all_audio_chunks' = Append(all_audio_chunks, Head(generator.chunks))
    /\ generator' = [generator EXCEPT !.chunks = Tail(@)]
    /\ UNCHANGED <<tts_pipeline, tts_pc, request, produced, audio_data, tts_failure,
                   tts_response, tts_responses, tts_model_calls>>
    /\ UNCHANGED <<sttVars, uiVars>>

\* line 50: the generator raises instead of yielding or stopping; lines 63-65
TtsGeneratorRaises ==
    /\ tts_pc = "drain"
    /\ generator.chunks = <<>>
    /\ generator.raises # NoneStr
    /\ tts_failure' = generator.raises
    /\ TtsRespond(InternalErrorResponse(generator.raises))
    /\ UNCHANGED <<tts_pipeline, request, generator, produced, all_audio_chunks,
                   audio_data, tts_model_calls>>
    /\ UNCHANGED <<sttVars, uiVars>>

\* line 50: StopIteration ends the comprehension
TtsExhausted ==
    /\ tts_pc = "drain"
    /\ generator.chunks = <<>>
    /\ generator.raises = NoneStr
    /\ tts_pc' = "collected"
    /\ UNCHANGED <<tts_pipeline, request, generator, produced, all_audio_chunks,
                   audio_data, tts_failure, tts_response, tts_responses,
                   tts_model_calls>>
    /\ UNCHANGED <<sttVars, uiVars>>

\* lines 52-53
TtsNoAudio ==
    /\ tts_pc = "collected"
    /\ all_audio_chunks = <<>>
    /\ TtsRespond(NoAudioResponse)
    /\ UNCHANGED <<tts_pipeline, request, generator, produced, all_audio_chunks,
                   audio_data, tts_failure, tts_model_calls>>
    /\ UNCHANGED <<sttVars, uiVars>>

\* lines 55-61: concatenate, encode, respond
TtsEncode ==
    /\ tts_pc = "collected"
    /\ all_audio_chunks # <<>>
    /\ audio_data' = Concatenate(all_audio_chunks)
    /\ TtsRespond(AudioResponse(audio_data'))
    /\ UNCHANGED <<tts_pipeline, request, generator, produced, all_audio_chunks,
                   tts_failure, tts_model_calls>>
    /\ UNCHANGED <<sttVars, uiVars>>

\* lines 55-59 raise (np.concatenate or sf.write); lines 63-65
TtsEncodeRaises ==
    /\ tts_pc = "collected"
    /\ all_audio_chunks # <<>>
    /\ \E e \in ExcMsgs :
         /\ tts_failure' = e
         /\ TtsRespond(InternalErrorResponse(e))
    /\ UNCHANGED <<tts_pipeline, request, generator, produced, all_audio_chunks,
                   audio_data, tts_model_calls>>
    /\ UNCHANGED <<sttVars, uiVars>>

\* the response is sent and the call's locals are gone
TtsReturn ==
    /\ tts_pc = "responded"
    /\ tts_pc' = "idle"
    /\ request' = NoTextRequest
    /\ generator' = NoGenerator
    /\ produced' = <<>>
    /\ all_audio_chunks' = <<>>
    /\ audio_data' = <<>>
    /\ tts_failure' = NoneStr
    /\ tts_response' = NoResponse
    /\ tts_responses' = 0
    /\ tts_model_calls' = 0
    /\ UNCHANGED tts_pipeline
    /\ UNCHANGED <<sttVars, uiVars>>

NextTts ==
    \/ TtsReceive
    \/ TtsInvoke
    \/ TtsNextChunk
    \/ TtsGeneratorRaises
    \/ TtsExhausted
    \/ TtsNoAudio
    \/ TtsEncode
    \/ TtsEncodeRaises
    \/ TtsReturn

(***************************************************************************)
(* transcribe_audio (main.py 67-91).                                       *)
(***************************************************************************)
Calls == 1..MaxCalls
Paths == 1..MaxPaths

\* None where a path or a clip is expected
NoPath == 0
NoClip == 0

AudioWav   == <<"a","u","d","i","o","/","w","a","v">>
TextPlain  == <<"t","e","x","t","/","p","l","a","i","n">>
AudioBare  == <<"a","u","d","i","o">>

\* the texts result["text"] takes
AsrTexts == {<<" ">>, <<"h">>, <<" ", "h", "\t">>, <<"h", " ", "h", "\n">>}

\* UploadFile.content_type: the part's Content-Type header, None when the part has none
ContentTypes == {AudioWav, TextPlain, AudioBare, <<>>, NoneStr}

StartsWithAudioWord(content_type) == StartsWith(content_type, AudioBare)

\* line 72, for a content type that is a str
IsAudio(content_type) == StartsWith(content_type, AudioPrefix)

\* the exception an unhandled error becomes: the framework's bare 500
NoSttResponse ==
    [status |-> 0, detail |-> NoneStr, transcribed_text |-> NoneStr]

NoUpload == [content_type |-> NoneStr]

UnhandledErrorResponse ==
    [status |-> 500, detail |-> NoneStr, transcribed_text |-> NoneStr]

\* line 73
InvalidTypeResponse ==
    [status |-> 400, detail |-> InvalidFileType, transcribed_text |-> NoneStr]

TranscriptionUnstripped(text) ==
    [status |-> 200, detail |-> NoneStr, transcribed_text |-> text]

\* line 84
TranscriptionResponse(text) ==
    [status |-> 200, detail |-> NoneStr, transcribed_text |-> Strip(text)]

\* lines 86-87
TranscriptionErrorResponse(e) ==
    [status |-> 500, detail |-> AnErrorOccurredPrefix \o e, transcribed_text |-> NoneStr]

\* the temp directory is a function from the names that exist to their files
\* os.path.exists (line 90)
Exists(files, path) == path \in DOMAIN files

\* open(name, O_CREAT | O_TRUNC): a new, empty file under that name
Create(files, path, file) ==
    [q \in DOMAIN files \cup {path} |-> IF q = path THEN file ELSE files[q]]

\* tmp_file.write (line 79)
Write(files, path) == [files EXCEPT ![path].written = TRUE]

\* os.remove (line 91)
Remove(files, path) == [q \in DOMAIN files \ {path} |-> files[q]]

AnyName(files) == Paths

\* tempfile.NamedTemporaryFile (line 78): the names it can create a file under,
\* opened with O_CREAT | O_EXCL, so never a name that exists
FreshNames(files) == Paths \ DOMAIN files

InitStt ==
    /\ stt_pc = [c \in Calls |-> "idle"]
    /\ upload = [c \in Calls |-> NoUpload]
    /\ tmp_file = [c \in Calls |-> NoPath]
    /\ tmp_file_path = [c \in Calls |-> NoPath]
    /\ asr_text = [c \in Calls |-> NoneStr]
    /\ stt_failure = [c \in Calls |-> NoneStr]
    /\ stt_response = [c \in Calls |-> NoSttResponse]
    /\ asr_calls = [c \in Calls |-> 0]
    /\ asr_read = [c \in Calls |-> 0]
    /\ fs = <<>>

\* the except clause (lines 86-87), then on to the finally clause
SttRaise(c, e) ==
    /\ stt_failure' = [stt_failure EXCEPT ![c] = e]
    /\ stt_response' = [stt_response EXCEPT ![c] = TranscriptionErrorResponse(e)]
    /\ stt_pc' = [stt_pc EXCEPT ![c] = "finally"]

\* a request arrives; lines 72-75
SttReceive(c) ==
    /\ stt_pc[c] = "idle"
    /\ \E ct \in ContentTypes :
         /\ upload' = [upload EXCEPT ![c] = [content_type |-> ct]]
         /\ IF ct = NoneStr
            THEN \* None has no startswith: AttributeError, outside the try block
                 /\ stt_response' = [stt_response EXCEPT ![c] = UnhandledErrorResponse]
                 /\ stt_pc' = [stt_pc EXCEPT ![c] = "done"]
            ELSE IF ~IsAudio(ct)
            THEN /\ stt_response' = [stt_response EXCEPT ![c] = InvalidTypeResponse]
                 /\ stt_pc' = [stt_pc EXCEPT ![c] = "done"]
            ELSE /\ stt_pc' = [stt_pc EXCEPT ![c] = "try"]
                 /\ UNCHANGED stt_response
    /\ UNCHANGED <<tmp_file, tmp_file_path, asr_text, stt_failure, asr_calls,
                   asr_read, fs>>
    /\ UNCHANGED <<ttsVars, uiVars>>

\* line 78: the temporary file is created (delete=False)
SttOpenTemp(c) ==
    /\ stt_pc[c] = "try"
    /\ FreshNames(fs) # {}
    /\ \E p \in FreshNames(fs) :
         /\ fs' = Create(fs, p, [creator |-> c, written |-> FALSE])
         /\ tmp_file' = [tmp_file EXCEPT ![c] = p]
    /\ stt_pc' = [stt_pc EXCEPT ![c] = "opened"]
    /\ UNCHANGED <<upload, tmp_file_path, asr_text, stt_failure,
                   stt_response, asr_calls, asr_read>>
    /\ UNCHANGED <<ttsVars, uiVars>>

\* line 78 raises: no name is left, or the directory cannot be written
SttOpenTempRaises(c) ==
    /\ stt_pc[c] = "try"
    /\ \E e \in ExcMsgs : SttRaise(c, e)
    /\ UNCHANGED <<upload, tmp_file, tmp_file_path, asr_text, asr_calls,
                   asr_read, fs>>
    /\ UNCHANGED <<ttsVars, uiVars>>

\* lines 79-80: the upload is read and written, the name is kept, the file closed
SttSave(c) ==
    /\ stt_pc[c] = "opened"
    /\ fs' = Write(fs, tmp_file[c])
    /\ tmp_file_path' = [tmp_file_path EXCEPT ![c] = tmp_file[c]]
    /\ stt_pc' = [stt_pc EXCEPT ![c] = "saved"]
    /\ UNCHANGED <<upload, tmp_file, asr_text, stt_failure, stt_response,
                   asr_calls, asr_read>>
    /\ UNCHANGED <<ttsVars, uiVars>>

\* line 79 raises (file.read() or tmp_file.write()): the with block closes the
\* file, which delete=False keeps, and line 80 is never reached
SttSaveRaises(c) ==
    /\ stt_pc[c] = "opened"
    /\ \E e \in ExcMsgs : SttRaise(c, e)
    /\ UNCHANGED <<upload, tmp_file, tmp_file_path, asr_text, asr_calls,
                   asr_read, fs>>
    /\ UNCHANGED <<ttsVars, uiVars>>

\* what the model opens when it is given a path
FileAt(path) == IF Exists(fs, path) THEN fs[path].creator ELSE 0

\* lines 82-84: the model returns a result
SttTranscribe(c) ==
    /\ stt_pc[c] = "saved"
    /\ asr_calls' = [asr_calls EXCEPT ![c] = @ + 1]
    /\ asr_read' = [asr_read EXCEPT ![c] = FileAt(tmp_file_path[c])]
    /\ \E text \in AsrTexts :
         /\ asr_text' = [asr_text EXCEPT ![c] = text]
         /\ stt_response' = [stt_response EXCEPT ![c] = TranscriptionResponse(text)]
    /\ stt_pc' = [stt_pc EXCEPT ![c] = "finally"]
    /\ UNCHANGED <<upload, tmp_file, tmp_file_path, stt_failure, fs>>
    /\ UNCHANGED <<ttsVars, uiVars>>

\* line 82 raises
SttTranscribeRaises(c) ==
    /\ stt_pc[c] = "saved"
    /\ asr_calls' = [asr_calls EXCEPT ![c] = @ + 1]
    /\ asr_read' = [asr_read EXCEPT ![c] = FileAt(tmp_file_path[c])]
    /\ \E e \in ExcMsgs : SttRaise(c, e)
    /\ UNCHANGED <<upload, tmp_file, tmp_file_path, asr_text, fs>>
    /\ UNCHANGED <<ttsVars, uiVars>>

\* lines 88-91
SttFinally(c) ==
    /\ stt_pc[c] = "finally"
    /\ IF tmp_file_path[c] # NoPath /\ Exists(fs, tmp_file_path[c])
       THEN fs' = Remove(fs, tmp_file_path[c])
       ELSE UNCHANGED fs
    /\ stt_pc' = [stt_pc EXCEPT ![c] = "done"]
    /\ UNCHANGED <<upload, tmp_file, tmp_file_path, asr_text, stt_failure,
                   stt_response, asr_calls, asr_read>>
    /\ UNCHANGED <<ttsVars, uiVars>>

NextStt ==
    \E c \in Calls :
        \/ SttReceive(c)
        \/ SttOpenTemp(c)
        \/ SttOpenTempRaises(c)
        \/ SttSave(c)
        \/ SttSaveRaises(c)
        \/ SttTranscribe(c)
        \/ SttTranscribeRaises(c)
        \/ SttFinally(c)

(***************************************************************************)
(* The Streamlit script (app.py).  Streamlit runs the whole script again   *)
(* on every interaction with a widget.                                     *)
(***************************************************************************)
\* line 28: the text area's initial value
DefaultText == <<"T","h","i","s"," ","i","s"," ","a"," ","s","i","m","p","l","e"," ","t","e","s","t"," ","f","o","r"," ","t","h","e"," ","K","o","k","o","r","o"," ","T","T","S"," ","m","o","d","e","l",".">>

UiTexts == {DefaultText, <<>>, <<" ">>, <<"h">>}

Presses == 1..MaxPresses
Clips   == 1..MaxClips

\* what requests.post (line 43, timeout=120) can come to
TtsOutcomes ==
    [kind : {"response"}, status : {200, 400, 500}]
        \cup {[kind |-> "Timeout", status |-> 0],
              [kind |-> "RequestException", status |-> 0]}

\* what requests.post (line 76) and response.json() can come to
SttOutcomes ==
    [kind : {"response"}, status : {200, 400, 500}, json : BOOLEAN]
        \cup {[kind |-> "ConnectionError", status |-> 0, json |-> FALSE],
              [kind |-> "Exception", status |-> 0, json |-> FALSE]}

NoTtsOutcome == [kind |-> "none", status |-> 0]
NoSttOutcome == [kind |-> "none", status |-> 0, json |-> FALSE]

\* lines 45-54
TtsRender(outcome) ==
    IF outcome.kind = "response"
    THEN IF outcome.status = 200 THEN "audio" ELSE "error: api"
    ELSE IF outcome.kind = "Timeout" THEN "error: timeout"
    ELSE "error: connect"

\* lines 78-92
SttRender(outcome) ==
    IF outcome.kind = "response"
    THEN IF ~outcome.json THEN "error: json"
         ELSE IF outcome.status = 200 THEN "transcription" ELSE "error: backend"
    ELSE IF outcome.kind = "ConnectionError" THEN "error: connection"
    ELSE "error: unexpected"

InitUi ==
    /\ input_text = DefaultText
    /\ st_audio_bytes = NoClip
    /\ presses = 0
    /\ clips = 0
    /\ tts_sent = [k \in Presses |-> 0]
    /\ stt_sent = [k \in Clips |-> 0]
    /\ tts_outcome = NoTtsOutcome
    /\ stt_outcome = NoSttOutcome
    /\ tts_shown = "nothing"
    /\ stt_shown = "nothing"
    /\ runs = 0

\* lines 31-56: the TTS tab in a run where the button returned `pressed`
TtsTab(pressed, press, text) ==
    IF ~pressed
    THEN /\ tts_shown' = "nothing"
         /\ tts_outcome' = NoTtsOutcome
         /\ UNCHANGED tts_sent
    ELSE IF text = <<>>
    THEN /\ tts_shown' = "warning"
         /\ tts_outcome' = NoTtsOutcome
         /\ UNCHANGED tts_sent
    ELSE \E outcome \in TtsOutcomes :
           /\ tts_sent' = [tts_sent EXCEPT ![press] = @ + 1]
           /\ tts_outcome' = outcome
           /\ tts_shown' = TtsRender(outcome)

\* line 65: the component's value in this run: the clip just recorded, else the
\* value it held in the run before
AudioRecorder(held, recorded) == IF recorded # NoClip THEN recorded ELSE held

\* lines 65-92: the STT tab in a run where the recorder returns `bytes`
SttTab(bytes) ==
    IF bytes = NoClip
    THEN /\ stt_shown' = "nothing"
         /\ stt_outcome' = NoSttOutcome
         /\ UNCHANGED stt_sent
    ELSE \E outcome \in SttOutcomes :
           /\ stt_sent' = [stt_sent EXCEPT ![bytes] = @ + 1]
           /\ stt_outcome' = outcome
           /\ stt_shown' = SttRender(outcome)

\* one run of the script, top to bottom
RunScript(pressed, press, text, recorded) ==
    /\ runs < MaxRuns
    /\ runs' = runs + 1
    /\ input_text' = text
    /\ st_audio_bytes' = AudioRecorder(st_audio_bytes, recorded)
    /\ TtsTab(pressed, press, text)
    /\ SttTab(st_audio_bytes')

\* the user edits the text area
UiEditText ==
    /\ \E text \in UiTexts \ {input_text} : RunScript(FALSE, 0, text, NoClip)
    /\ UNCHANGED <<presses, clips>>
    /\ UNCHANGED <<ttsVars, sttVars>>

\* the user presses "Generate Audio"
UiPressGenerate ==
    /\ presses < MaxPresses
    /\ presses' = presses + 1
    /\ RunScript(TRUE, presses + 1, input_text, NoClip)
    /\ UNCHANGED clips
    /\ UNCHANGED <<ttsVars, sttVars>>

\* the user records a clip
UiRecordClip ==
    /\ clips < MaxClips
    /\ clips' = clips + 1
    /\ RunScript(FALSE, 0, input_text, clips + 1)
    /\ UNCHANGED presses
    /\ UNCHANGED <<ttsVars, sttVars>>

NextUi ==
    \/ UiEditText
    \/ UiPressGenerate
    \/ UiRecordClip

(***************************************************************************)
(* Properties.                                                             *)
(***************************************************************************)
IsWhitespace(ch) == ch \in Whitespace

IsBlank(text) == \A i \in 1..Len(text) : IsWhitespace(text[i])

\* t is s without its leading and trailing whitespace
IsStrippedOf(t, s) ==
    /\ t = <<>> \/ (~IsWhitespace(t[1]) /\ ~IsWhitespace(t[Len(t)]))
    /\ \E i \in 0..Len(s) : \E j \in 0..(Len(s) - i) :
         /\ t = SubSeq(s, i + 1, Len(s) - j)
         /\ \A k \in 1..i : IsWhitespace(s[k])
         /\ \A k \in (Len(s) - j + 1)..Len(s) : IsWhitespace(s[k])

\* where chunk k starts in the concatenation of cs
RECURSIVE Offset(_, _)
Offset(cs, k) == IF k = 1 THEN 0 ELSE Offset(cs, k - 1) + Len(cs[k - 1])

\* buf is cs[1] followed by cs[2] ... followed by cs[n]
IsConcatenationOf(buf, cs) ==
    /\ Len(buf) = Offset(cs, Len(cs) + 1)
    /\ \A k \in 1..Len(cs) :
         SubSeq(buf, Offset(cs, k) + 1, Offset(cs, k) + Len(cs[k])) = cs[k]

\* a declared content type that does not start with "audio/"
DeclaredNotAudio(ct) ==
    /\ ct # NoneStr
    /\ \/ Len(ct) < Len(AudioPrefix)
       \/ \E i \in 1..Len(AudioPrefix) : ct[i] # AudioPrefix[i]

DeclaredAudio(ct) == ct # NoneStr /\ ~DeclaredNotAudio(ct)

\* the files in the temp directory that call c created
FilesOf(c) == {p \in DOMAIN fs : fs[p].creator = c}

\* C1: a transcribe_audio call that created a temporary file has, once it is
\* done, left no file of its own on disk, whatever exit path it took.
TempFileGoneOnEveryExit ==
    \A c \in Calls :
        (stt_pc[c] = "done" /\ tmp_file[c] # NoPath) => FilesOf(c) = {}

\* C2: an upload whose declared content type does not start with "audio/" is
\* answered 400, and the call has created no temporary file and has not
\* invoked the transcription model.
NonAudioRejected ==
    \A c \in Calls :
        (stt_pc[c] = "done" /\ DeclaredNotAudio(upload[c].content_type)) =>
            /\ stt_response[c].status = 400
            /\ tmp_file[c] = NoPath
            /\ FilesOf(c) = {}
            /\ asr_calls[c] = 0

NonAudioRejectedWitness ==
    \E c \in Calls :
        /\ stt_pc[c] = "done"
        /\ upload[c].content_type = TextPlain
        /\ stt_response[c].status = 400

\* C7: for an accepted upload, a failure while saving or transcribing gives 500
\* with a detail that contains the exception's message and no transcribed_text;
\* no failure gives 200 with the model's text stripped of surrounding whitespace.
TranscriptionOutcome ==
    \A c \in Calls :
        (stt_pc[c] = "done" /\ DeclaredAudio(upload[c].content_type)) =>
            IF stt_failure[c] # NoneStr
            THEN /\ stt_response[c].status = 500
                 /\ stt_response[c].detail # NoneStr
                 /\ Contains(stt_response[c].detail, stt_failure[c])
                 /\ stt_response[c].transcribed_text = NoneStr
            ELSE /\ stt_response[c].status = 200
                 /\ asr_calls[c] = 1
                 /\ IsStrippedOf(stt_response[c].transcribed_text, asr_text[c])

TranscriptionOutcomeWitness ==
    \E c, d \in Calls :
        /\ stt_pc[c] = "done" /\ stt_pc[d] = "done"
        /\ stt_response[c].status = 200
        /\ stt_response[c].transcribed_text # asr_text[c]
        /\ stt_failure[d] # NoneStr
        /\ asr_calls[d] = 1

\* the calls that hold a temporary file they have yet to be finished with
UsesFile(c) ==
    \/ stt_pc[c] \in {"opened", "saved"}
    \/ stt_pc[c] = "finally" /\ tmp_file_path[c] # NoPath

\* C10: a call in flight uses a temporary file that exists and that it created
\* itself, no two calls in flight hold the same path, and the model is run on
\* the caller's own file.
TempFileNeverShared ==
    /\ \A c \in Calls :
         UsesFile(c) => /\ Exists(fs, tmp_file[c])
                        /\ fs[tmp_file[c]].creator = c
    /\ \A c, d \in Calls :
         (c # d /\ UsesFile(c) /\ UsesFile(d)) => tmp_file[c] # tmp_file[d]
    /\ \A c \in Calls : asr_calls[c] > 0 => asr_read[c] = c

TempFileNeverSharedWitness ==
    \E c, d \in Calls :
        /\ c # d
        /\ stt_pc[c] = "saved"
        /\ stt_pc[d] = "finally" /\ tmp_file_path[d] # NoPath

TtsStatus == tts_response.status

\* C3: with tts_pipeline None every call is answered 500 with a non-empty text
\* body, and the synthesis model is never invoked.
UnavailableModelFailsFast ==
    tts_pipeline = None =>
        /\ tts_model_calls = 0
        /\ tts_pc \in {"idle", "responded"}
        /\ tts_pc = "responded" =>
             /\ TtsStatus = 500
             /\ tts_response.content \in Seq(STRING)
             /\ Len(tts_response.content) > 0

UnavailableModelFailsFastWitness ==
    /\ tts_pipeline = None
    /\ tts_pc = "responded"
    /\ request.text # <<>>
    /\ TtsStatus = 500

\* the model was invoked and its generator ended without raising
SequenceProduced ==
    /\ tts_pc = "responded"
    /\ tts_model_calls > 0
    /\ generator.raises = NoneStr

\* C4 as stated: when the chunk sequence is produced without raising, the
\* response is 400 exactly when the sequence is empty and 200 audio/wav otherwise.
EmptyIff400Else200 ==
    SequenceProduced =>
        /\ TtsStatus = 400 <=> produced = <<>>
        /\ produced # <<>> => /\ TtsStatus = 200
                              /\ tts_response.media_type = "audio/wav"

\* C4 as amended: when the chunk sequence is produced without raising, the
\* response is 400 "no audio" exactly when the sequence is empty; otherwise it is
\* 200 audio/wav unless concatenating or encoding raises, and then 500.  A
\* failure is never answered 400 and "no audio" is never answered 500.
EmptyIff400Else200UnlessEncodingRaises ==
    /\ SequenceProduced =>
         /\ TtsStatus = 400 <=> produced = <<>>
         /\ produced = <<>> => tts_response.content = NoAudioGenerated
         /\ produced # <<>> =>
              IF tts_failure = NoneStr
              THEN TtsStatus = 200 /\ tts_response.media_type = "audio/wav"
              ELSE TtsStatus = 500
    /\ (tts_pc = "responded" /\ tts_failure # NoneStr) => TtsStatus = 500
    /\ (tts_pc = "responded" /\ TtsStatus = 400) => tts_failure = NoneStr

EmptyIff400Witness ==
    /\ SequenceProduced
    /\ produced = <<>>
    /\ TtsStatus = 400

\* C5: a request whose text is empty or whitespace-only is answered 400.
BlankTextIs400 ==
    (tts_pc = "responded" /\ IsBlank(request.text)) => TtsStatus = 400

\* C6: the handler drains the generator before it responds, and the buffer it
\* encodes is the chunks in production order, none dropped, doubled or moved.
ChunksConcatenatedInOrder ==
    /\ (tts_pc \in {"collected", "responded"} /\ tts_model_calls > 0) =>
         /\ generator.chunks = <<>>
         /\ all_audio_chunks = produced
    /\ (tts_pc = "responded" /\ TtsStatus = 200) =>
         /\ produced # <<>>
         /\ IsConcatenationOf(audio_data, produced)
         /\ tts_response.content.frames = audio_data

ChunksConcatenatedInOrderWitness ==
    /\ tts_pc = "responded"
    /\ TtsStatus = 200
    /\ Len(produced) = MaxChunks
    /\ produced[1] # produced[2]

\* C8: every exception raised in the try block is answered 500 with a body that
\* contains the exception's text, and a call ends with exactly one response,
\* of status 200, 400 or 500.
FailuresAre500WithDetail ==
    /\ tts_pc = "responded" => tts_responses = 1 /\ TtsStatus \in {200, 400, 500}
    /\ tts_pc # "responded" => tts_responses = 0
    /\ tts_failure # NoneStr =>
         /\ tts_pipeline # None
         /\ tts_pc = "responded"
         /\ TtsStatus = 500
         /\ Contains(tts_response.content, tts_failure)

FailuresAre500WithDetailWitness ==
    /\ tts_pc = "responded"
    /\ tts_failure # NoneStr
    /\ all_audio_chunks # <<>>
    /\ generator.raises # NoneStr

TtsErrorShown == tts_shown \in {"error: api", "error: timeout", "error: connect"}
SttErrorShown ==
    stt_shown \in {"error: json", "error: backend", "error: connection",
                   "error: unexpected"}

\* C9: a handler call invokes its model at most once, a press of "Generate
\* Audio" and a recorded clip each send at most one request, and a failed
\* request is followed by an error message.
NothingSentTwice ==
    /\ tts_model_calls <= 1
    /\ \A c \in Calls : asr_calls[c] <= 1
    /\ \A k \in Presses : tts_sent[k] <= 1
    /\ \A k \in Clips : stt_sent[k] <= 1
    /\ (tts_outcome.kind # "none" /\ tts_outcome.status # 200) => TtsErrorShown
    /\ (stt_outcome.kind # "none" /\ ~(stt_outcome.status = 200 /\ stt_outcome.json))
           => SttErrorShown

\* the part of C9 that is about the handlers alone
ModelInvokedAtMostOnce ==
    /\ tts_model_calls <= 1
    /\ \A c \in Calls : asr_calls[c] <= 1

\* the part of C9 that is about one run of the script
OneRequestPerTabPerRun ==
    [][/\ \A k \in Presses : tts_sent'[k] <= tts_sent[k] + 1
       /\ \A k \in Clips : stt_sent'[k] <= stt_sent[k] + 1]_vars

(***************************************************************************)
(* Specifications.                                                         *)
(***************************************************************************)
Init == InitTts /\ InitStt /\ InitUi

SpecTts == Init /\ [][NextTts]_vars
SpecStt == Init /\ [][NextStt]_vars
SpecUi  == Init /\ [][NextUi]_vars

Next == NextTts \/ NextStt \/ NextUi

Spec == Init /\ [][Next]_vars

====
